---- MODULE Spec2Model ----
(***************************************************************************)
(* A model of the Auto Archive plugin (src/main.ts): the path utilities,   *)
(* the age test, and the scan loop processVault / processSourceFile /      *)
(* deleteEmptyFolders acting on a path-addressed file tree (the vault).    *)
(*                                                                         *)
(* Strings are sequences of one-character strings, so that trim, replace,  *)
(* split, startsWith and endsWith are computed character by character.     *)
(***************************************************************************)
EXTENDS Integers, Sequences, FiniteSets, TLC

VARIABLES
    settings,     \* this.settings.archiveConfigs: sequence of config ids
    configObjs,   \* the ArchiveConfig objects, by id
    vault,        \* the file tree: [files: path -> [ctime, content], folders: set of paths]
    now,          \* the clock read by new Date()
    scan,         \* the processVault invocation that runs, or ran last: 1 for the first
    started,      \* history: the clock at the start of each invocation
    pc,           \* position of the processVault invocation in flight ("idle": none)
    frame,        \* locals of the processVault / processSourceFile invocation in flight
    ops,          \* history: the store requests issued, in order
    warnings,     \* history: console.warn calls, as [scan, rule]
    lastDone,     \* history: the per-file step that has just run to its end (or None)
    archived,     \* history: every per-file step that has ended
    probeIn,      \* inputs of a pure function under test
    probeOut,     \* its results
    suspended,    \* a second processVault invocation, waiting at an await (or None)
    edits         \* history: the changes made through the settings tab

vars == <<settings, configObjs, vault, now, scan, started, pc, frame, ops, warnings,
          lastDone, archived, probeIn, probeOut, suspended, edits>>

(***************************************************************************)
(* Strings                                                                 *)
(***************************************************************************)
EMPTY == << >>
SLASH == <<"/">>
SPACE == <<" ">>
MD == <<".", "m", "d">>

None == [kind |-> "none"]

Take(s, n) == SubSeq(s, 1, n)
Drop(s, n) == SubSeq(s, n + 1, Len(s))

\* String.prototype.startsWith / endsWith
StartsWith(s, p) == Len(p) <= Len(s) /\ Take(s, Len(p)) = p
EndsWith(s, p) == Len(p) <= Len(s) /\ Drop(s, Len(s) - Len(p)) = p

\* String.prototype.trim, with " " the one whitespace character of the model
RECURSIVE TrimStart(_)
TrimStart(s) == IF StartsWith(s, SPACE) THEN TrimStart(Drop(s, 1)) ELSE s

RECURSIVE TrimEnd(_)
TrimEnd(s) == IF EndsWith(s, SPACE) THEN TrimEnd(Take(s, Len(s) - 1)) ELSE s

Trim(s) == TrimEnd(TrimStart(s))

\* while (s.endsWith("/")) s = s.slice(0, s.length - 1)
RECURSIVE StripTrailingSlashes(_)
StripTrailingSlashes(s) ==
    IF EndsWith(s, SLASH) THEN StripTrailingSlashes(Take(s, Len(s) - 1)) ELSE s

\* while (s.startsWith("/")) s = s.slice(1)
RECURSIVE StripLeadingSlashes(_)
StripLeadingSlashes(s) ==
    IF StartsWith(s, SLASH) THEN StripLeadingSlashes(Drop(s, 1)) ELSE s

\* String.prototype.indexOf: the first position (from 1) where p occurs in s, 0 if none
IndexOf(s, p) ==
    LET hits == {i \in 1..(Len(s) - Len(p) + 1) : SubSeq(s, i, i + Len(p) - 1) = p}
    IN  IF hits = {} THEN 0 ELSE CHOOSE i \in hits : \A j \in hits : i <= j

\* String.prototype.lastIndexOf
LastIndexOf(s, p) ==
    LET hits == {i \in 1..(Len(s) - Len(p) + 1) : SubSeq(s, i, i + Len(p) - 1) = p}
    IN  IF hits = {} THEN 0 ELSE CHOOSE i \in hits : \A j \in hits : i >= j

Contains(s, p) == IndexOf(s, p) # 0

\* A variant that takes out the last occurrence.
ReplaceLastWithEmpty(s, p) ==
    LET i == LastIndexOf(s, p)
    IN  IF i = 0 THEN s ELSE Take(s, i - 1) \o Drop(s, i - 1 + Len(p))

\* s.replace(p, ""): a string pattern replaces the first occurrence only
ReplaceFirstWithEmpty(s, p) ==
    LET i == IndexOf(s, p)
    IN  IF i = 0 THEN s ELSE Take(s, i - 1) \o Drop(s, i - 1 + Len(p))

\* s.split("/"), including the empty pieces
RECURSIVE SplitOnSlash(_)
SplitOnSlash(s) ==
    LET i == IndexOf(s, SLASH)
    IN  IF i = 0 THEN <<s>> ELSE <<Take(s, i - 1)>> \o SplitOnSlash(Drop(s, i))

\* parts.join("/")
RECURSIVE JoinWithSlash(_)
JoinWithSlash(parts) ==
    IF Len(parts) = 0 THEN EMPTY
    ELSE IF Len(parts) = 1 THEN parts[1]
    ELSE parts[1] \o SLASH \o JoinWithSlash(Tail(parts))

(***************************************************************************)
(* Path utilities (src/main.ts 185-251)                                    *)
(***************************************************************************)
\* A variant of joinPaths that leaves the trailing slashes of p1 in place.
joinPathsKeepSlash(p1, p2) ==
    LET p1Trimmed == Trim(p1)
        p2Trimmed == StripTrailingSlashes(StripLeadingSlashes(Trim(p2)))
    IN  IF Len(p1Trimmed) = 0 /\ Len(p2Trimmed) = 0 THEN EMPTY
        ELSE IF Len(p1Trimmed) = 0 THEN p2Trimmed
        ELSE IF Len(p2Trimmed) = 0 THEN p1Trimmed
        ELSE p1Trimmed \o SLASH \o p2Trimmed

joinPaths(p1, p2) ==
    LET p1Trimmed == StripTrailingSlashes(Trim(p1))
        p2Trimmed == StripTrailingSlashes(StripLeadingSlashes(Trim(p2)))
    IN  IF Len(p1Trimmed) = 0 /\ Len(p2Trimmed) = 0 THEN EMPTY
        ELSE IF Len(p1Trimmed) = 0 THEN p2Trimmed
        ELSE IF Len(p2Trimmed) = 0 THEN p1Trimmed
        ELSE p1Trimmed \o SLASH \o p2Trimmed

splitPathString(path) == SelectSeq(SplitOnSlash(path), LAMBDA segment : Len(segment) > 0)

getFolderFromPath(fileOrFolderPath) ==
    IF ~EndsWith(fileOrFolderPath, MD) THEN fileOrFolderPath
    ELSE IF ~Contains(fileOrFolderPath, SLASH) THEN EMPTY
    ELSE Take(fileOrFolderPath, LastIndexOf(fileOrFolderPath, SLASH) - 1)

\* A variant that takes the last occurrence of the source folder's name out.
getFilePathInSourceFolderLast(sourceFile, archiveConfig) ==
    ReplaceLastWithEmpty(sourceFile.path, archiveConfig.sourceFolder)

\* sourceFile.path.replace(archiveConfig.sourceFolder, "")
getFilePathInSourceFolder(sourceFile, archiveConfig) ==
    ReplaceFirstWithEmpty(sourceFile.path, archiveConfig.sourceFolder)

(***************************************************************************)
(* The age test (src/main.ts 129-135)                                      *)
(***************************************************************************)
MIN_DAYS == 1
NUM_MS_IN_DAY == 86400000

\* A variant of the age test that also takes a file created exactly at the cutoff.
shouldFileBeArchivedInclusive(sourceFile, archiveConfig, today) ==
    sourceFile.ctime <= today - NUM_MS_IN_DAY * archiveConfig.days

shouldFileBeArchived(sourceFile, archiveConfig, today) ==
    LET createdDate == sourceFile.ctime
        cutoffDate == today - NUM_MS_IN_DAY * archiveConfig.days
    IN  createdDate < cutoffDate

(***************************************************************************)
(* The file tree behind this.app.vault: entities are addressed by path.    *)
(* A file carries its creation time and its content; a folder's children   *)
(* are the entities whose parent path it is.                               *)
(***************************************************************************)
\* TAbstractFile.parent.path, with EMPTY for the vault root
ParentPath(p) == IF ~Contains(p, SLASH) THEN EMPTY ELSE Take(p, LastIndexOf(p, SLASH) - 1)

\* TAbstractFile.name
BaseName(p) == Drop(p, LastIndexOf(p, SLASH))

\* The paths of the folders above p, outermost included, the root excluded
AncestorPaths(p) == {Take(p, i - 1) : i \in {j \in 2..Len(p) : p[j] = "/"}}

IsFilePath(v, p) == p \in DOMAIN v.files
IsFolderPath(v, p) == p \in v.folders
Exists(v, p) == IsFilePath(v, p) \/ IsFolderPath(v, p)

\* vault.getAbstractFileByPath: a TFile, a TFolder or null
getAbstractFileByPath(v, path) ==
    IF IsFilePath(v, path)
    THEN [kind |-> "file", path |-> path, ctime |-> v.files[path].ctime]
    ELSE IF IsFolderPath(v, path) THEN [kind |-> "folder", path |-> path]
    ELSE None

\* TFolder.children, as a set of paths
Children(v, folder) == {p \in (DOMAIN v.files) \cup v.folders : ParentPath(p) = folder}

Under(p, root) == p = root \/ StartsWith(p, root \o SLASH)

\* vault.delete: the entity at the path goes, with everything beneath it
vaultDelete(v, path) ==
    [files |-> [p \in {q \in DOMAIN v.files : ~Under(q, path)} |-> v.files[p]],
     folders |-> {q \in v.folders : ~Under(q, path)}]

\* vault.copy: fails when the destination is occupied, when the source file is
\* gone, or when the destination's folder does not exist; the copy is a new file,
\* created at time t
vaultCopyFails(v, from, to) ==
    \/ Exists(v, to)
    \/ ~IsFilePath(v, from)
    \/ (ParentPath(to) # EMPTY /\ ~IsFolderPath(v, ParentPath(to)))

vaultCopy(v, from, to, t) ==
    [v EXCEPT !.files =
        [p \in (DOMAIN v.files) \cup {to} |->
            IF p = to THEN [ctime |-> t, content |-> v.files[from].content]
            ELSE v.files[p]]]

\* vault.createFolder: fails when something is already at the path (or the path
\* is the root, or runs through a file); otherwise creates every missing folder
\* of the path
vaultCreateFolderFails(v, path) ==
    \/ path = EMPTY
    \/ Exists(v, path)
    \/ \E a \in AncestorPaths(path) : IsFilePath(v, a)

vaultCreateFolder(v, path) ==
    [v EXCEPT !.folders = v.folders \cup {path} \cup AncestorPaths(path)]

\* All arrangements of a finite set as a sequence
Perms(S) ==
    {f \in [1..Cardinality(S) -> S] : \A i, j \in 1..Cardinality(S) : i # j => f[i] # f[j]}

(***************************************************************************)
(* getMarkdownFilesInFolderRecursive (src/main.ts 108-120). The order of a *)
(* folder's children is the store's, so the result is one of a set of      *)
(* lists: one per order of each folder's children.                         *)
(***************************************************************************)
RECURSIVE getMarkdownFilesInFolderRecursive(_, _)
RECURSIVE FilesOfChildren(_, _)

FilesOfChildren(v, children) ==
    IF Len(children) = 0 THEN {<< >>}
    ELSE LET child == Head(children)
             mine == IF IsFilePath(v, child) /\ EndsWith(BaseName(child), MD)
                     THEN {<<[path |-> child, ctime |-> v.files[child].ctime]>>}
                     ELSE IF IsFolderPath(v, child)
                     THEN getMarkdownFilesInFolderRecursive(v, child)
                     ELSE {<< >>}
         IN  {a \o b : a \in mine, b \in FilesOfChildren(v, Tail(children))}

getMarkdownFilesInFolderRecursive(v, folder) ==
    UNION {FilesOfChildren(v, children) : children \in Perms(Children(v, folder))}

(***************************************************************************)
(* Bounds and the inputs Init draws from                                   *)
(***************************************************************************)
MaxScans == 2     \* processVault invocations per behaviour
MaxRules == 2     \* length of settings.archiveConfigs
MaxFiles == 2     \* files in the initial tree
MaxTicks == 1     \* milliseconds the clock may advance
Now0 == 259200000 \* the clock at the start: three days after the epoch

N == <<"N">>
A == <<"A">>
R == <<"R">>
X == <<"X">>
aMd == <<"a">> \o MD
tTxt == <<"t", ".", "t", "x", "t">>

Path2(p, q) == p \o SLASH \o q
Path3(p, q, r) == p \o SLASH \o q \o SLASH \o r
Path4(p, q, r, s) == p \o SLASH \o q \o SLASH \o r \o SLASH \o s

\* The files a tree may hold: notes at three depths under N (the deepest in a
\* folder that carries the source folder's name), a file that is not a note, a
\* note already in the archive, and a file that is not a note in an archive
\* folder that is named like a note
deepNote == Path4(N, A, N, aMd)
FileUniverse ==
    {Path2(N, aMd), Path3(N, A, aMd), deepNote, Path3(N, A, tTxt), Path2(R, aMd),
     Path3(R, aMd, tTxt)}

\* Creation times: one millisecond more than MIN_DAYS days before Now0, and
\* exactly MIN_DAYS days before Now0
CTimeDue == Now0 - NUM_MS_IN_DAY * MIN_DAYS - 1
CTimeEdge == Now0 - NUM_MS_IN_DAY * MIN_DAYS

\* The creation time varies for the notes under N, the only files whose age
\* is ever read
IsNoteUnderN(p) == StartsWith(p, N \o SLASH) /\ EndsWith(p, MD)

\* The folders N and R exist in every tree; the others exist when a file needs them
Trees ==
    {[files |-> fs, folders |-> {N, R} \cup UNION {AncestorPaths(p) : p \in DOMAIN fs}] :
        fs \in UNION {{g \in [F -> [ctime : {CTimeDue, CTimeEdge}, content : {EMPTY}]] :
                            \A p \in F : IsNoteUnderN(p) \/ g[p].ctime = CTimeDue} :
                        F \in {G \in SUBSET FileUniverse :
                                  /\ Cardinality(G) <= MaxFiles
                                  /\ \A p, q \in G : p \notin AncestorPaths(q)}}}

\* A file's content is named after the path it had in the initial tree
WithContents(tree) ==
    [tree EXCEPT !.files = [p \in DOMAIN tree.files |-> [ctime |-> tree.files[p].ctime, content |-> p]]]

\* The rules of the model all have days = MIN_DAYS
ArchiveConfig ==
    [sourceFolder : {N, X, Path2(N, aMd), SPACE, EMPTY},
     destFolder : {R, N, Path2(N, A), SPACE},
     maintainFolderStructure : BOOLEAN,
     deleteEmptyFolders : BOOLEAN,
     days : {MIN_DAYS}]

\* Rules that add a second, unusable rule to a list: an empty or blank source,
\* a blank destination, a source that is not in the tree or is a file
SideConfigs ==
    {c \in ArchiveConfig :
        /\ c.maintainFolderStructure /\ c.deleteEmptyFolders
        /\ \/ c.sourceFolder \in {SPACE, EMPTY, X, Path2(N, aMd)} /\ c.destFolder = R
           \/ c.sourceFolder = N /\ c.destFolder = SPACE}

\* The usable rule of such a list moves notes from N to R
MainConfigs ==
    {c \in ArchiveConfig :
        /\ c.sourceFolder = N /\ c.destFolder = R
        /\ c.maintainFolderStructure = c.deleteEmptyFolders}

ConfigLists ==
    {<<c>> : c \in ArchiveConfig}
    \cup (IF MaxRules >= 2
          THEN {<<c, d>> : c \in MainConfigs, d \in SideConfigs}
               \cup {<<d, c>> : c \in MainConfigs, d \in SideConfigs}
          ELSE {})

ConfigIds == 1..MaxRules

(***************************************************************************)
(* processVault and what it calls (src/main.ts 44-176)                     *)
(***************************************************************************)
EmptyFrame ==
    [archiveConfigs |-> << >>, ruleIdx |-> 0, sourceFolder |-> None,
     sourceFiles |-> << >>, fileIdx |-> 0, newFilePath |-> EMPTY,
     folderPathParts |-> << >>, numPathParts |-> 0, i |-> 0,
     before |-> None, walk |-> << >>, rules |-> << >>]

\* A variant of the rule filter that does not trim.
ValidConfigNoTrim(config) ==
    Len(config.sourceFolder) > 0 /\ Len(config.destFolder) > 0

\* The predicate of getValidArchiveConfigs' filter
ValidConfig(config) ==
    Len(Trim(config.sourceFolder)) > 0 /\ Len(Trim(config.destFolder)) > 0

\* Array.prototype.filter keeps the objects themselves: the result lists ids
getValidArchiveConfigs == SelectSeq(settings, LAMBDA id : ValidConfig(configObjs[id]))

\* The loop variables of processVault and processSourceFile
archiveConfigId == frame.archiveConfigs[frame.ruleIdx]
archiveConfig == configObjs[archiveConfigId]
sourceFile == frame.sourceFiles[frame.fileIdx]

\* The contents of the files at or beneath a path
ContentsUnder(v, path) == {v.files[p].content : p \in {q \in DOMAIN v.files : Under(q, path)}}

\* One request to the store, as the history keeps it: `contents` are the
\* contents of the files a delete removes or a copy writes
Op(kind, path, ok, phase, contents) ==
    [scan |-> scan, rule |-> archiveConfigId, kind |-> kind, path |-> path, ok |-> ok,
     phase |-> phase, contents |-> contents,
     file |-> IF phase = "resolve" THEN EMPTY ELSE sourceFile.path]

\* What the history keeps of a per-file step when it ends: `config` is the rule
\* as it is then, `atStart` the rule as it was when processVault took its list
StepRecord(f, threw) ==
    [kind |-> "step", scan |-> scan, rule |-> archiveConfigId, config |-> archiveConfig,
     atStart |-> f.rules[archiveConfigId],
     src |-> sourceFile.path, dest |-> f.newFilePath, before |-> f.before,
     walk |-> f.walk, threw |-> threw]

\* The timer fires (src/main.ts 34-41) and processVault takes its list of rules
ProcessVault ==
    /\ pc = "idle"
    /\ suspended.kind = "none"
    /\ Len(started) < MaxScans
    /\ scan' = Len(started) + 1
    /\ started' = Append(started, now)
    /\ frame' = [EmptyFrame EXCEPT !.archiveConfigs = getValidArchiveConfigs, !.ruleIdx = 1,
                                    !.rules = configObjs]
    /\ pc' = "loop"
    /\ lastDone' = None
    /\ UNCHANGED <<settings, configObjs, vault, now, ops, warnings, archived, probeIn, probeOut, suspended, edits>>

\* for (const archiveConfig of archiveConfigs): the lookup of line 58
ResolveSource ==
    /\ pc = "loop"
    /\ frame.ruleIdx <= Len(frame.archiveConfigs)
    /\ frame' = [frame EXCEPT !.sourceFolder = getAbstractFileByPath(vault, archiveConfig.sourceFolder)]
    /\ ops' = Append(ops, Op("lookup", archiveConfig.sourceFolder, TRUE, "resolve", {}))
    /\ pc' = "resolved"
    /\ UNCHANGED <<settings, configObjs, vault, now, scan, started, warnings, lastDone, archived,
                   probeIn, probeOut, suspended, edits>>

\* The rule loop is exhausted: processVault returns
FinishScan ==
    /\ pc = "loop"
    /\ frame.ruleIdx > Len(frame.archiveConfigs)
    /\ pc' = "idle"
    /\ frame' = EmptyFrame
    /\ UNCHANGED <<settings, configObjs, vault, now, scan, started, ops, warnings, lastDone, archived,
                   probeIn, probeOut, suspended, edits>>

\* sourceFolder instanceof TFolder: collect its notes (line 61)
CollectFiles ==
    /\ pc = "resolved"
    /\ frame.sourceFolder.kind = "folder"
    /\ \E files \in getMarkdownFilesInFolderRecursive(vault, frame.sourceFolder.path) :
          frame' = [frame EXCEPT !.sourceFiles = files, !.fileIdx = 1]
    /\ pc' = "files"
    /\ UNCHANGED <<settings, configObjs, vault, now, scan, started, ops, warnings, lastDone, archived,
                   probeIn, probeOut, suspended, edits>>

\* A variant that warns and returns from processVault.
WarnNotFolderAndReturn ==
    /\ pc = "resolved"
    /\ frame.sourceFolder.kind # "folder"
    /\ warnings' = warnings \cup {[scan |-> scan, rule |-> archiveConfigId]}
    /\ frame' = EmptyFrame
    /\ pc' = "idle"
    /\ UNCHANGED <<settings, configObjs, vault, now, scan, started, ops, lastDone, archived,
                   probeIn, probeOut, suspended, edits>>

\* otherwise: console.warn, and on to the next rule (lines 67-69)
WarnNotFolder ==
    /\ pc = "resolved"
    /\ frame.sourceFolder.kind # "folder"
    /\ warnings' = warnings \cup {[scan |-> scan, rule |-> archiveConfigId]}
    /\ frame' = [frame EXCEPT !.ruleIdx = @ + 1, !.sourceFolder = None]
    /\ pc' = "loop"
    /\ UNCHANGED <<settings, configObjs, vault, now, scan, started, ops, lastDone, archived,
                   probeIn, probeOut, suspended, edits>>

\* The file loop of a rule is exhausted (lines 64-66)
NextRule ==
    /\ pc = "files"
    /\ frame.fileIdx > Len(frame.sourceFiles)
    /\ frame' = [frame EXCEPT !.ruleIdx = @ + 1, !.sourceFolder = None,
                              !.sourceFiles = << >>, !.fileIdx = 0]
    /\ pc' = "loop"
    /\ lastDone' = None
    /\ UNCHANGED <<settings, configObjs, vault, now, scan, started, ops, warnings, archived,
                   probeIn, probeOut, suspended, edits>>

\* processSourceFile on a file that is not due: nothing happens (line 80)
SkipSourceFile ==
    /\ pc = "files"
    /\ frame.fileIdx <= Len(frame.sourceFiles)
    /\ ~shouldFileBeArchived(sourceFile, archiveConfig, now)
    /\ frame' = [frame EXCEPT !.fileIdx = @ + 1]
    /\ lastDone' = None
    /\ UNCHANGED <<settings, configObjs, vault, now, scan, started, pc, ops, warnings, archived,
                   probeIn, probeOut, suspended, edits>>

\* A variant of the destination that reproduces the sub-path whatever the rule says.
newFilePathAlwaysStructured(file, config) ==
    joinPaths(config.destFolder, getFilePathInSourceFolder(file, config))

\* Construct path for file in archive (lines 82-92)
newFilePathOf(file, config) ==
    IF config.maintainFolderStructure
    THEN joinPaths(config.destFolder, getFilePathInSourceFolder(file, config))
    ELSE joinPaths(config.destFolder, BaseName(file.path))

\* processSourceFile on a file that is due, up to its first await (lines 80-92)
ComputeDestination ==
    /\ pc = "files"
    /\ frame.fileIdx <= Len(frame.sourceFiles)
    /\ shouldFileBeArchived(sourceFile, archiveConfig, now)
    /\ frame' = [frame EXCEPT
                    !.newFilePath = newFilePathOf(sourceFile, archiveConfig),
                    !.before = [content |-> IF IsFilePath(vault, sourceFile.path)
                                            THEN vault.files[sourceFile.path].content
                                            ELSE EMPTY,
                                folders |-> vault.folders],
                    !.walk = << >>]
    /\ pc' = IF archiveConfig.maintainFolderStructure THEN "mkdir" ELSE "preclear"
    /\ lastDone' = None
    /\ UNCHANGED <<settings, configObjs, vault, now, scan, started, ops, warnings, archived,
                   probeIn, probeOut, suspended, edits>>

\* createFoldersInPath (lines 272-279): a failure is swallowed
CreateFoldersInPath ==
    /\ pc = "mkdir"
    /\ LET path == getFolderFromPath(frame.newFilePath)
           fails == vaultCreateFolderFails(vault, path)
       IN  /\ vault' = IF fails THEN vault ELSE vaultCreateFolder(vault, path)
           /\ ops' = Append(ops, Op("createFolder", path, ~fails, "mkdir", {}))
    /\ pc' = "preclear"
    /\ UNCHANGED <<settings, configObjs, now, scan, started, frame, warnings, lastDone, archived,
                   probeIn, probeOut, suspended, edits>>

\* A variant that issues the delete whether or not something is at the destination.
DeleteExistingUnconditional ==
    /\ pc = "preclear"
    /\ LET existingArchiveFile == getAbstractFileByPath(vault, frame.newFilePath)
           looked == Append(ops, Op("lookup", frame.newFilePath, TRUE, "preclear", {}))
       IN  /\ vault' = IF existingArchiveFile.kind # "none"
                       THEN vaultDelete(vault, existingArchiveFile.path) ELSE vault
           /\ ops' = Append(looked, Op("delete", frame.newFilePath, TRUE, "preclear",
                                      ContentsUnder(vault, frame.newFilePath)))
    /\ pc' = "copy"
    /\ UNCHANGED <<settings, configObjs, now, scan, started, frame, warnings, lastDone, archived,
                   probeIn, probeOut, suspended, edits>>

\* Whatever is at the destination is deleted first (lines 94-97)
DeleteExisting ==
    /\ pc = "preclear"
    /\ LET existingArchiveFile == getAbstractFileByPath(vault, frame.newFilePath)
           looked == Append(ops, Op("lookup", frame.newFilePath, TRUE, "preclear", {}))
       IN  IF existingArchiveFile.kind # "none"
           THEN /\ vault' = vaultDelete(vault, existingArchiveFile.path)
                /\ ops' = Append(looked, Op("delete", existingArchiveFile.path, TRUE, "preclear",
                                           ContentsUnder(vault, existingArchiveFile.path)))
           ELSE /\ vault' = vault
                /\ ops' = looked
    /\ pc' = "copy"
    /\ UNCHANGED <<settings, configObjs, now, scan, started, frame, warnings, lastDone, archived,
                   probeIn, probeOut, suspended, edits>>

\* copyFile (lines 259-265): a failure is swallowed
CopyFile ==
    /\ pc = "copy"
    /\ LET fails == vaultCopyFails(vault, sourceFile.path, frame.newFilePath)
       IN  /\ vault' = IF fails THEN vault
                       ELSE vaultCopy(vault, sourceFile.path, frame.newFilePath, now)
           /\ ops' = Append(ops, Op("copy", frame.newFilePath, ~fails, "copy",
                                      IF fails THEN {} ELSE {vault.files[sourceFile.path].content}))
    /\ pc' = "delsrc"
    /\ UNCHANGED <<settings, configObjs, now, scan, started, frame, warnings, lastDone, archived,
                   probeIn, probeOut, suspended, edits>>

\* The per-file step has run to its end: on to the next file
StepDone(f) ==
    /\ frame' = [f EXCEPT !.fileIdx = @ + 1]
    /\ pc' = "files"
    /\ lastDone' = StepRecord(f, FALSE)
    /\ archived' = archived \cup {StepRecord(f, FALSE)}

\* A variant that deletes what is at the destination instead of the source.
deleteTargetDestination(f) == f.newFilePath

\* The entity given to vault.delete on line 100
deleteTarget(f) == f.sourceFiles[f.fileIdx].path

\* A variant of the prune loop's test that runs one more round.
pruneLoopContinuesOneMore(i, numPathParts) == i <= numPathParts

\* A variant of the prune loop's test that stops one round early.
pruneLoopContinuesOneLess(i, numPathParts) == i < numPathParts - 1

\* for (let i = 0; i < numPathParts; i++) (line 164)
pruneLoopContinues(i, numPathParts) == i < numPathParts

\* deleteEmptyFolders up to its loop (lines 149-162)
folderPathPartsOf(file, config) ==
    splitPathString(getFolderFromPath(getFilePathInSourceFolder(file, config)))

\* The source is deleted whatever the copy did (line 100); then, if the rule
\* asks for it, deleteEmptyFolders starts (lines 102-104, 149-162)
DeleteSource ==
    /\ pc = "delsrc"
    /\ vault' = vaultDelete(vault, deleteTarget(frame))
    /\ ops' = Append(ops, Op("delete", deleteTarget(frame), TRUE, "delsrc",
                               ContentsUnder(vault, deleteTarget(frame))))
    /\ LET parts == folderPathPartsOf(sourceFile, archiveConfig)
       IN  IF archiveConfig.deleteEmptyFolders /\ Len(parts) > 0
           THEN /\ frame' = [frame EXCEPT !.folderPathParts = parts,
                                          !.numPathParts = Len(parts), !.i = 0]
                /\ pc' = "prune"
                /\ UNCHANGED <<lastDone, archived>>
           ELSE StepDone(frame)
    /\ UNCHANGED <<settings, configObjs, now, scan, started, warnings, probeIn, probeOut, suspended, edits>>

\* vault.delete of an entity that is no longer in the tree may reject instead:
\* nothing catches it, and processVault ends there
DeleteSourceThrows ==
    /\ pc = "delsrc"
    /\ ~Exists(vault, deleteTarget(frame))
    /\ ops' = Append(ops, Op("delete", deleteTarget(frame), FALSE, "delsrc", {}))
    /\ lastDone' = StepRecord(frame, TRUE)
    /\ archived' = archived \cup {StepRecord(frame, TRUE)}
    /\ pc' = "idle"
    /\ frame' = EmptyFrame
    /\ UNCHANGED <<settings, configObjs, vault, now, scan, started, warnings, probeIn, probeOut, suspended, edits>>

\* A variant of the test that takes any folder.
isAnyFolder(v, abstractFolder) == abstractFolder.kind = "folder"

\* abstractFolder instanceof TFolder && abstractFolder.children.length === 0 (line 168)
isEmptyFolder(v, abstractFolder) ==
    abstractFolder.kind = "folder" /\ Children(v, abstractFolder.path) = {}

\* One round of deleteEmptyFolders' loop (lines 164-174)
PruneStep ==
    /\ pc = "prune"
    /\ LET currDirPath == joinPaths(archiveConfig.sourceFolder, JoinWithSlash(frame.folderPathParts))
           abstractFolder == getAbstractFileByPath(vault, currDirPath)
           empty == isEmptyFolder(vault, abstractFolder)
           looked == Append(ops, Op("lookup", currDirPath, TRUE, "prune", {}))
           f == [frame EXCEPT !.folderPathParts = Take(@, Len(@) - 1),
                              !.i = @ + 1,
                              !.walk = Append(@, [path |-> currDirPath, deleted |-> empty])]
       IN  /\ vault' = IF empty THEN vaultDelete(vault, currDirPath) ELSE vault
           /\ ops' = IF empty THEN Append(looked, Op("delete", currDirPath, TRUE, "prune",
                                                ContentsUnder(vault, currDirPath)))
                     ELSE looked
           /\ IF pruneLoopContinues(f.i, f.numPathParts)
              THEN /\ frame' = f
                   /\ pc' = "prune"
                   /\ UNCHANGED <<lastDone, archived>>
              ELSE StepDone(f)
    /\ UNCHANGED <<settings, configObjs, now, scan, started, warnings, probeIn, probeOut, suspended, edits>>

\* Time passes between two scans (the timers of onload start them an hour
\* apart). Within a scan the clock is read by the age test only (new Date(),
\* line 130), once per file; a file that comes of age in the middle of a scan
\* behaves as a file with the earlier creation time, which the trees cover
Tick ==
    /\ now < Now0 + MaxTicks
    /\ pc = "idle"
    /\ now' = now + 1
    /\ UNCHANGED <<settings, configObjs, vault, scan, started, pc, frame, ops, warnings, lastDone,
                   archived, probeIn, probeOut, suspended, edits>>

\* The state after onload, with one of the given lists of rules loaded
InitFrom(lists, trees) ==
    /\ \E list \in lists :
          /\ settings = [i \in 1..Len(list) |-> i]
          /\ configObjs = [i \in 1..Len(list) |-> list[i]]
    /\ \E tree \in trees : vault = WithContents(tree)
    /\ now = Now0
    /\ scan = 0
    /\ started = << >>
    /\ pc = "idle"
    /\ frame = EmptyFrame
    /\ ops = << >>
    /\ warnings = {}
    /\ lastDone = None
    /\ archived = {}
    /\ probeIn = None
    /\ probeOut = None
    /\ suspended = None
    /\ edits = << >>

Init == InitFrom(ConfigLists, Trees)

Next ==
    \/ ProcessVault
    \/ ResolveSource
    \/ FinishScan
    \/ CollectFiles
    \/ WarnNotFolder
    \/ NextRule
    \/ SkipSourceFile
    \/ ComputeDestination
    \/ CreateFoldersInPath
    \/ DeleteExisting
    \/ CopyFile
    \/ DeleteSource
    \/ DeleteSourceThrows
    \/ PruneStep
    \/ Tick

Spec == Init /\ [][Next]_vars

(***************************************************************************)
(* What else the host may run while processVault waits at an await. The    *)
(* store requests of lines 89, 96, 99/261, 100 and 170 are awaited; until  *)
(* one settles the invocation is suspended, and a timer callback or a      *)
(* callback of the settings tab may run.                                   *)
(***************************************************************************)
MaxEdits == 1       \* changes made through the settings tab per behaviour
MaxDaysInput == 2   \* largest number typed into "Archive After X Days"

\* The invocation that runs has issued a createFolder, a copy or a delete and
\* has not gone on since
AtAwait ==
    /\ pc # "idle"
    /\ Len(ops) > 0
    /\ ops[Len(ops)].scan = scan
    /\ ops[Len(ops)].kind \in {"createFolder", "copy", "delete"}

Invocation == [kind |-> "invocation", pc |-> pc, frame |-> frame, scan |-> scan]

\* A timer of onload (lines 34-41) fires while an invocation waits: nothing
\* keeps processVault from starting again
ProcessVaultWhileAwaiting ==
    /\ AtAwait
    /\ suspended.kind = "none"
    /\ Len(started) < MaxScans
    /\ suspended' = Invocation
    /\ scan' = Len(started) + 1
    /\ started' = Append(started, now)
    /\ frame' = [EmptyFrame EXCEPT !.archiveConfigs = getValidArchiveConfigs, !.ruleIdx = 1,
                                    !.rules = configObjs]
    /\ pc' = "loop"
    /\ lastDone' = None
    /\ UNCHANGED <<settings, configObjs, vault, now, ops, warnings, archived, probeIn, probeOut,
                   edits>>

\* The request the other invocation waits for settles and it goes on, when the
\* one that runs has returned or waits itself
ResumeSuspended ==
    /\ suspended.kind = "invocation"
    /\ pc = "idle" \/ AtAwait
    /\ pc' = suspended.pc
    /\ frame' = suspended.frame
    /\ scan' = suspended.scan
    /\ suspended' = IF pc = "idle" THEN None ELSE Invocation
    /\ lastDone' = None
    /\ UNCHANGED <<settings, configObjs, vault, now, started, ops, warnings, archived, probeIn,
                   probeOut, edits>>

\* These specifications start with one rule, from N or from a folder that is
\* not in the tree, to R or to N
SingleRuleLists ==
    {<<c>> : c \in {d \in ArchiveConfig : d.sourceFolder \in {N, X} /\ d.destFolder \in {R, N}}}

InitAsync == InitFrom(SingleRuleLists, Trees)

\* Two invocations at once are followed on the trees that hold one file
OneFileTrees == {tree \in Trees : Cardinality(DOMAIN tree.files) <= 1}

InitOverlap == InitFrom(SingleRuleLists, OneFileTrees)

NextOverlap == Next \/ ProcessVaultWhileAwaiting \/ ResumeSuspended

SpecOverlap == InitOverlap /\ [][NextOverlap]_vars

\* A callback of the settings tab may run when no invocation runs
CanEdit == Len(edits) < MaxEdits /\ (pc = "idle" \/ AtAwait)

Edit(id, field) == [scan |-> scan, pc |-> pc, rule |-> id, field |-> field]

\* "Source Folder" onChange (lines 323-326): the rule object itself is changed
EditSourceFolder ==
    /\ CanEdit
    /\ \E i \in DOMAIN settings, newFolder \in {N, X} :
          /\ newFolder # configObjs[settings[i]].sourceFolder
          /\ configObjs' = [configObjs EXCEPT ![settings[i]].sourceFolder = newFolder]
          /\ edits' = Append(edits, Edit(settings[i], "sourceFolder"))
    /\ UNCHANGED <<settings, vault, now, scan, started, pc, frame, ops, warnings, lastDone,
                   archived, probeIn, probeOut, suspended>>

\* "Archive Folder" onChange (lines 338-341)
EditDestFolder ==
    /\ CanEdit
    /\ \E i \in DOMAIN settings, newFolder \in {R, N} :
          /\ newFolder # configObjs[settings[i]].destFolder
          /\ configObjs' = [configObjs EXCEPT ![settings[i]].destFolder = newFolder]
          /\ edits' = Append(edits, Edit(settings[i], "destFolder"))
    /\ UNCHANGED <<settings, vault, now, scan, started, pc, frame, ops, warnings, lastDone,
                   archived, probeIn, probeOut, suspended>>

\* "Maintain Folder Structure" onChange (lines 350-353)
ToggleMaintainFolderStructure ==
    /\ CanEdit
    /\ \E i \in DOMAIN settings :
          /\ configObjs' = [configObjs EXCEPT ![settings[i]].maintainFolderStructure = ~@]
          /\ edits' = Append(edits, Edit(settings[i], "maintainFolderStructure"))
    /\ UNCHANGED <<settings, vault, now, scan, started, pc, frame, ops, warnings, lastDone,
                   archived, probeIn, probeOut, suspended>>

\* "Auto-Delete Empty Folders" onChange (lines 362-365)
ToggleDeleteEmptyFolders ==
    /\ CanEdit
    /\ \E i \in DOMAIN settings :
          /\ configObjs' = [configObjs EXCEPT ![settings[i]].deleteEmptyFolders = ~@]
          /\ edits' = Append(edits, Edit(settings[i], "deleteEmptyFolders"))
    /\ UNCHANGED <<settings, vault, now, scan, started, pc, frame, ops, warnings, lastDone,
                   archived, probeIn, probeOut, suspended>>

\* "Archive After X Days" onChange (lines 380-392): the digits typed, with
\* MIN_DAYS for none or zero
EditDays ==
    /\ CanEdit
    /\ \E i \in DOMAIN settings, typed \in 0..MaxDaysInput :
          LET newDays == IF typed = 0 THEN MIN_DAYS ELSE typed
          IN  /\ newDays # configObjs[settings[i]].days
              /\ configObjs' = [configObjs EXCEPT ![settings[i]].days = newDays]
              /\ edits' = Append(edits, Edit(settings[i], "days"))
    /\ UNCHANGED <<settings, vault, now, scan, started, pc, frame, ops, warnings, lastDone,
                   archived, probeIn, probeOut, suspended>>

\* "Delete Config" onClick (lines 398-402): archiveConfigs.splice(i, 1)
DeleteConfig ==
    /\ CanEdit
    /\ \E i \in DOMAIN settings :
          /\ settings' = Take(settings, i - 1) \o Drop(settings, i)
          /\ edits' = Append(edits, Edit(settings[i], "deleted"))
    /\ UNCHANGED <<configObjs, vault, now, scan, started, pc, frame, ops, warnings, lastDone,
                   archived, probeIn, probeOut, suspended>>

NextEdit ==
    \/ Next
    \/ EditSourceFolder
    \/ EditDestFolder
    \/ ToggleMaintainFolderStructure
    \/ ToggleDeleteEmptyFolders
    \/ EditDays
    \/ DeleteConfig

SpecEdit == InitAsync /\ [][NextEdit]_vars

(***************************************************************************)
(* The pure functions on their own: Init draws the inputs, one action      *)
(* applies the function. The scan does not run in these specifications.    *)
(***************************************************************************)
MaxStrLen == 3    \* length of the strings given to joinPaths
MaxAgeDays == 4   \* largest `days` given to the age test
MaxOffset == 2    \* milliseconds around the cutoff

Chars == {"x", "/", " "}
Strings == UNION {[1..n -> Chars] : n \in 0..MaxStrLen}

NoScan ==
    /\ settings = << >>
    /\ configObjs = << >>
    /\ vault = [files |-> << >>, folders |-> {}]
    /\ now = Now0
    /\ scan = 0
    /\ started = << >>
    /\ pc = "idle"
    /\ frame = EmptyFrame
    /\ ops = << >>
    /\ warnings = {}
    /\ lastDone = None
    /\ archived = {}
    /\ suspended = None
    /\ edits = << >>

NoScanUnchanged ==
    UNCHANGED <<settings, configObjs, vault, now, scan, started, pc, frame, ops,
                warnings, lastDone, archived, suspended, edits>>

InitJoin ==
    /\ NoScan
    /\ probeIn \in [kind : {"join"}, p1 : Strings, p2 : Strings]
    /\ probeOut = [kind |-> "none"]

\* joinPaths(p1, p2)
JoinOnce ==
    /\ probeIn.kind = "join"
    /\ probeOut.kind = "none"
    /\ probeOut' = [kind |-> "joined", joined |-> joinPaths(probeIn.p1, probeIn.p2)]
    /\ UNCHANGED probeIn
    /\ NoScanUnchanged

\* joinPaths(joinPaths(p1, p2), "")
JoinAgain ==
    /\ probeOut.kind = "joined"
    /\ probeOut' = [kind |-> "rejoined", joined |-> probeOut.joined,
                    rejoined |-> joinPaths(probeOut.joined, EMPTY)]
    /\ UNCHANGED probeIn
    /\ NoScanUnchanged

NextJoin == JoinOnce \/ JoinAgain

SpecJoin == InitJoin /\ [][NextJoin]_vars

InitAge ==
    /\ NoScan
    /\ \E today \in {Now0 + NUM_MS_IN_DAY * MaxAgeDays + k : k \in {0, 1, 999}},
          days \in MIN_DAYS..MaxAgeDays, offset \in (0 - MaxOffset)..MaxOffset :
          probeIn = [kind |-> "age", today |-> today, days |-> days,
                     ctime |-> today - NUM_MS_IN_DAY * days + offset]
    /\ probeOut = [kind |-> "none"]

\* shouldFileBeArchived(sourceFile, archiveConfig) at the instant `today`
EvaluateAge ==
    /\ probeIn.kind = "age"
    /\ probeOut.kind = "none"
    /\ probeOut' = [kind |-> "age",
                    due |-> shouldFileBeArchived([ctime |-> probeIn.ctime],
                                                 [days |-> probeIn.days], probeIn.today)]
    /\ UNCHANGED probeIn
    /\ NoScanUnchanged

NextAge == EvaluateAge

SpecAge == InitAge /\ [][NextAge]_vars

(***************************************************************************)
(* The claims                                                              *)
(***************************************************************************)
StepEnded == lastDone.kind = "step"
StepCompleted == StepEnded /\ ~lastDone.threw

\* The content of the file at p, EMPTY when there is no file at p
ContentAt(p) == IF IsFilePath(vault, p) THEN vault.files[p].content ELSE EMPTY

\* C1: when a per-file step ends and has removed the source file it was given,
\* the content that file had is in the file at the computed destination path.
C1_NoDataLoss ==
    (StepEnded /\ lastDone.before.content # EMPTY /\ ~IsFilePath(vault, lastDone.src))
        => ContentAt(lastDone.dest) = lastDone.before.content

\* C2: when a per-file step has run to its end, nothing is left at the source
\* path, so the file is not at both its source and its destination path, and the
\* delete of the source was issued after the copy.
C2_NoDuplicate ==
    StepCompleted =>
        /\ ~Exists(vault, lastDone.src)
        /\ ~(IsFilePath(vault, lastDone.src) /\ IsFilePath(vault, lastDone.dest))
        /\ \E i, j \in DOMAIN ops :
              /\ i < j
              /\ ops[i].scan = lastDone.scan /\ ops[j].scan = lastDone.scan
              /\ ops[i].file = lastDone.src /\ ops[j].file = lastDone.src
              /\ ops[i].kind = "copy"
              /\ ops[j].kind = "delete" /\ ops[j].path = lastDone.src

\* A step has run to its end and the copy is at the destination.
C2_Witness ==
    /\ StepCompleted
    /\ lastDone.before.content # EMPTY
    /\ lastDone.dest # lastDone.src
    /\ ContentAt(lastDone.dest) = lastDone.before.content

\* C3: no delete issued by the prune walk is for the folder at the sourceFolder
\* path of the rule the walk runs for, and the walk does not visit that folder.
C3_SourceFolderKept ==
    /\ \A k \in DOMAIN ops :
          ops[k].phase = "prune" => ops[k].path # configObjs[ops[k].rule].sourceFolder
    /\ StepEnded =>
          \A k \in DOMAIN lastDone.walk : lastDone.walk[k].path # lastDone.config.sourceFolder

\* A prune walk has deleted folders and left the source folder in place, empty.
C3_Witness ==
    /\ StepCompleted
    /\ \E k \in DOMAIN lastDone.walk : lastDone.walk[k].deleted
    /\ IsFolderPath(vault, lastDone.config.sourceFolder)
    /\ Children(vault, lastDone.config.sourceFolder) = {}

\* C4: the age test answers true exactly when the file was created more than
\* days * 86400000 ms before now: created exactly days * 86400000 ms before now
\* it is not due, one millisecond earlier it is.
C4_EligibilityBoundary ==
    probeOut.kind = "age" =>
        /\ probeOut.due <=> (probeIn.today - probeIn.ctime > 86400000 * probeIn.days)
        /\ (probeIn.today - probeIn.ctime = 86400000 * probeIn.days) => ~probeOut.due
        /\ (probeIn.today - probeIn.ctime = 86400000 * probeIn.days + 1) => probeOut.due

\* A file one millisecond older than the cutoff of a rule of several days is due.
C4_Witness ==
    /\ probeOut.kind = "age"
    /\ probeIn.days > 1
    /\ probeIn.today - probeIn.ctime = 86400000 * probeIn.days + 1
    /\ probeOut.due

\* The folders strictly between a rule's source folder and a file
ChainFolders(file, sourceFolder) ==
    {a \in AncestorPaths(file) : StartsWith(a, sourceFolder \o SLASH)}

\* C5: a step that has run to its end under a rule that maintains the folder
\* structure has computed destFolder + "/" + the file's path relative to
\* sourceFolder, every folder above that destination exists, and the original is
\* gone.
C5_StructurePreserved ==
    (StepCompleted /\ lastDone.config.maintainFolderStructure) =>
        /\ lastDone.dest =
              lastDone.config.destFolder \o Drop(lastDone.src, Len(lastDone.config.sourceFolder))
        /\ \A a \in AncestorPaths(lastDone.dest) : IsFolderPath(vault, a)
        /\ ~Exists(vault, lastDone.src)

\* C6: a step that has run to its end under a rule that does not maintain the
\* folder structure has computed destFolder + "/" + the file's name, and has
\* created no folder.
C6_Flattened ==
    (StepCompleted /\ ~lastDone.config.maintainFolderStructure) =>
        /\ lastDone.dest = lastDone.config.destFolder \o SLASH \o BaseName(lastDone.src)
        /\ vault.folders \subseteq lastDone.before.folders
        /\ \A k \in DOMAIN ops :
              (ops[k].scan = lastDone.scan /\ ops[k].file = lastDone.src)
                  => ops[k].kind # "createFolder"

\* A note two folders below the source folder has been moved into the archive
\* folder itself.
C6_Witness ==
    /\ StepCompleted
    /\ ~lastDone.config.maintainFolderStructure
    /\ lastDone.src = deepNote
    /\ lastDone.dest = Path2(R, aMd)
    /\ ContentAt(lastDone.dest) = lastDone.src

\* C7: a prune walk visits the folders strictly between the source folder and
\* the archived file, deepest first and each once, deletes each one that is empty
\* when visited, and so leaves none of them empty.
C7_PruneWalk ==
    (StepCompleted /\ lastDone.config.deleteEmptyFolders) =>
        LET chain == ChainFolders(lastDone.src, lastDone.config.sourceFolder)
            walk == lastDone.walk
        IN  /\ Len(walk) = Cardinality(chain)
            /\ {walk[k].path : k \in DOMAIN walk} = chain
            /\ \A k \in DOMAIN walk : k > 1 => Len(walk[k].path) < Len(walk[k - 1].path)
            /\ \A a \in chain : ~(IsFolderPath(vault, a) /\ Children(vault, a) = {})

\* The walk has deleted the deepest folder and then its parent.
C7_Witness ==
    /\ StepCompleted
    /\ lastDone.src = deepNote
    /\ lastDone.walk = <<[path |-> Path3(N, A, N), deleted |-> TRUE],
                         [path |-> Path2(N, A), deleted |-> TRUE]>>
    /\ ~IsFolderPath(vault, Path2(N, A))

Blank(s) == \A i \in DOMAIN s : s[i] = " "
InvalidRule(id) == Blank(configObjs[id].sourceFolder) \/ Blank(configObjs[id].destFolder)
ScanReturned == pc = "idle" /\ scan >= 1 /\ ~(StepEnded /\ lastDone.threw)

\* C8: no store request and no warning is issued for a rule whose sourceFolder
\* or destFolder is empty or blank, and a scan that returns has looked up the
\* source folder of every other rule.
C8_InvalidRuleSkipped ==
    /\ \A k \in DOMAIN ops : ~InvalidRule(ops[k].rule)
    /\ \A w \in warnings : ~InvalidRule(w.rule)
    /\ ScanReturned =>
          \A id \in DOMAIN configObjs :
              ~InvalidRule(id) =>
                  \E k \in DOMAIN ops :
                      ops[k].scan = scan /\ ops[k].rule = id /\ ops[k].phase = "resolve"

\* A scan has returned that skipped a blank rule and archived a file for the
\* rule after it.
C8_Witness ==
    /\ ScanReturned
    /\ Len(settings) = 2
    /\ configObjs[1].sourceFolder = SPACE
    /\ \E k \in DOMAIN ops : ops[k].rule = 2 /\ ops[k].kind = "copy" /\ ops[k].ok

\* The clock still reads what it read when scan s started
NoTimeElapsedSince(s) == now = started[s]

\* C9: a scan that follows another with no time elapsed issues no copy and no
\* delete that moves or removes the content of a file whose step the earlier scan
\* ran to its end.
C9_IdempotentRescan ==
    \A a \in archived : \A k \in DOMAIN ops :
        (/\ ~a.threw
         /\ a.before.content # EMPTY
         /\ ops[k].scan = a.scan + 1
         /\ NoTimeElapsedSince(a.scan)
         /\ ops[k].kind \in {"copy", "delete"})
            => a.before.content \notin ops[k].contents

\* A second scan has returned, with no time elapsed, that found the first scan's
\* copy under the source folder.
C9_Witness ==
    /\ ScanReturned
    /\ scan = 2
    /\ now = Now0
    /\ \E a \in archived :
          /\ a.scan = 1 /\ ~a.threw
          /\ a.before.content # EMPTY
          /\ ContentAt(a.dest) = a.before.content
          /\ StartsWith(a.dest, a.config.sourceFolder \o SLASH)

\* C10: joining the result of joinPaths with the empty string gives the result
\* back, and joinPaths("", "") is the empty string.
C10_JoinIdempotent ==
    /\ probeOut.kind = "rejoined" => probeOut.rejoined = probeOut.joined
    /\ (probeOut.kind = "joined" /\ probeIn.p1 = EMPTY /\ probeIn.p2 = EMPTY)
          => probeOut.joined = EMPTY

\* C11: the store requests of two processVault invocations do not interleave on
\* a file: between two requests that one invocation issues for a file, no other
\* invocation issues a request for that file.
C11_NoInProcessRace ==
    \A i, j, k \in DOMAIN ops :
        (/\ i < j /\ j < k
         /\ ops[i].file # EMPTY
         /\ ops[i].scan = ops[k].scan /\ ops[i].file = ops[k].file
         /\ ops[j].file = ops[i].file)
            => ops[j].scan = ops[i].scan

\* The step that has just happened ended in a delete that the store rejected
DeleteRejected ==
    /\ Len(ops') > Len(ops)
    /\ ops'[Len(ops')].kind = "delete"
    /\ ~ops'[Len(ops')].ok

\* C12: when the store rejects a delete during a per-file step, processVault
\* is still in flight afterwards, at the next file of the same rule.
C12_DeleteFailureContained ==
    [][DeleteRejected =>
          /\ pc' = "files"
          /\ frame'.archiveConfigs = frame.archiveConfigs
          /\ frame'.ruleIdx = frame.ruleIdx
          /\ frame'.sourceFiles = frame.sourceFiles
          /\ frame'.fileIdx = frame.fileIdx + 1]_vars

\* The copy of the step failed
CopyFailedIn(step) ==
    \E k \in DOMAIN ops :
        /\ ops[k].scan = step.scan /\ ops[k].rule = step.rule /\ ops[k].file = step.src
        /\ ops[k].kind = "copy" /\ ~ops[k].ok

\* C13: when the copy of a per-file step has failed, the delete of the source
\* file is issued after it, and under a rule with deleteEmptyFolders the prune
\* walk visits every folder between the source folder and the file.
C13_CopyFailureSwallowed ==
    (StepEnded /\ CopyFailedIn(lastDone)) =>
        /\ \E i, j \in DOMAIN ops :
              /\ i < j
              /\ ops[i].scan = lastDone.scan /\ ops[i].rule = lastDone.rule
              /\ ops[i].file = lastDone.src /\ ops[i].kind = "copy"
              /\ ops[j].scan = lastDone.scan /\ ops[j].rule = lastDone.rule
              /\ ops[j].file = lastDone.src /\ ops[j].phase = "delsrc"
              /\ ops[j].path = lastDone.src
        /\ lastDone.config.deleteEmptyFolders =>
              Len(lastDone.walk) =
                  Cardinality(ChainFolders(lastDone.src, lastDone.config.sourceFolder))

\* The resolve requests of the scan that runs, as the rules they were issued for
ResolvedRules ==
    LET mine == SelectSeq(ops, LAMBDA o : o.scan = scan /\ o.phase = "resolve")
    IN  [k \in DOMAIN mine |-> mine[k].rule]

\* C14: when the sourceFolder of a valid rule resolves to nothing or to a file,
\* processVault logs a warning, issues no request for that rule but the lookup,
\* and goes on to the next rule; a scan that returns has looked up the source
\* folders of all valid rules in their configured order.
C14_UnresolvableSourceSkipped ==
    /\ [](/\ \A w \in warnings : \A k \in DOMAIN ops :
                 (ops[k].scan = w.scan /\ ops[k].rule = w.rule) => ops[k].phase = "resolve"
          /\ ScanReturned => ResolvedRules = getValidArchiveConfigs)
    /\ [][(pc = "resolved" /\ frame.sourceFolder.kind # "folder") =>
             /\ warnings' = warnings \cup {[scan |-> scan, rule |-> archiveConfigId]}
             /\ warnings' # warnings
             /\ ops' = ops /\ vault' = vault
             /\ pc' = "loop"
             /\ frame'.archiveConfigs = frame.archiveConfigs
             /\ frame'.ruleIdx = frame.ruleIdx + 1]_vars

\* A scan has returned that warned about its first rule, whose source is a
\* file, and archived a file for the rule after it.
C14_Witness ==
    /\ ScanReturned
    /\ Len(settings) = 2
    /\ configObjs[1].sourceFolder = Path2(N, aMd)
    /\ [scan |-> scan, rule |-> 1] \in warnings
    /\ \E k \in DOMAIN ops : ops[k].scan = scan /\ ops[k].rule = 2 /\ ops[k].kind = "copy" /\ ops[k].ok

\* The requests of a per-file step, in the order they were issued
StepOpsOf(step) ==
    SelectSeq(ops, LAMBDA o : /\ o.scan = step.scan /\ o.rule = step.rule
                              /\ o.file = step.src /\ o.phase # "resolve")

\* The place of a request in the per-file step
Rank(phase) ==
    CASE phase = "mkdir" -> 1
      [] phase = "preclear" -> 2
      [] phase = "copy" -> 3
      [] phase = "delsrc" -> 4
      [] phase = "prune" -> 5

HowMany(seq, Test(_)) == Len(SelectSeq(seq, Test))

\* C16: the requests of a per-file step are issued in the order create folders,
\* delete what is at the destination, copy, delete the source, prune; the folders
\* are created exactly under maintainFolderStructure, the delete at the
\* destination is issued only for an entity that is there, the prune requests
\* only under deleteEmptyFolders; and no request for another file is issued
\* between the first and the last request of the step.
C16_StepOrder ==
    StepEnded =>
        LET so == StepOpsOf(lastDone)
            n == Len(so)
        IN  /\ n <= Len(ops) /\ SubSeq(ops, Len(ops) - n + 1, Len(ops)) = so
            /\ \A i, j \in DOMAIN so : i < j => Rank(so[i].phase) <= Rank(so[j].phase)
            /\ HowMany(so, LAMBDA o : o.phase = "mkdir") =
                  (IF lastDone.config.maintainFolderStructure THEN 1 ELSE 0)
            /\ \A i \in DOMAIN so : so[i].phase = "mkdir" => so[i].kind = "createFolder"
            /\ HowMany(so, LAMBDA o : o.phase = "preclear" /\ o.kind = "lookup") = 1
            /\ HowMany(so, LAMBDA o : o.phase = "preclear" /\ o.kind = "delete") <= 1
            /\ \A i \in DOMAIN so :
                  (so[i].phase = "preclear" /\ so[i].kind = "delete") => so[i].contents # {}
            /\ HowMany(so, LAMBDA o : o.phase = "copy" /\ o.kind = "copy") = 1
            /\ HowMany(so, LAMBDA o : o.phase = "delsrc" /\ o.kind = "delete"
                                        /\ o.path = lastDone.src) = 1
            /\ (\E i \in DOMAIN so : so[i].phase = "prune") => lastDone.config.deleteEmptyFolders

\* A step has deleted the note that was at the destination, copied, deleted
\* the source and pruned a folder, and has created no folder.
C16_Witness ==
    /\ StepCompleted
    /\ ~lastDone.config.maintainFolderStructure
    /\ LET so == StepOpsOf(lastDone)
       IN  /\ \E i \in DOMAIN so : so[i].phase = "preclear" /\ so[i].kind = "delete"
           /\ \E i \in DOMAIN so : so[i].kind = "copy" /\ so[i].ok
           /\ \E i \in DOMAIN so : so[i].phase = "prune" /\ so[i].kind = "delete"

\* C17: what a round of the prune walk removes from the tree is a folder that
\* has no children when the delete is issued and that lies between the source
\* folder and the archived file; no file goes with it.
C17_PruneOnlyEmpty ==
    /\ [](\A k \in DOMAIN ops :
             (ops[k].phase = "prune" /\ ops[k].kind = "delete") =>
                 /\ ops[k].contents = {}
                 /\ ops[k].path \in ChainFolders(ops[k].file, configObjs[ops[k].rule].sourceFolder))
    /\ [][pc = "prune" =>
             /\ DOMAIN vault'.files = DOMAIN vault.files
             /\ \A q \in vault.folders \ vault'.folders :
                   /\ Children(vault, q) = {}
                   /\ q \in ChainFolders(sourceFile.path, archiveConfig.sourceFolder)]_vars

\* A walk has deleted the deepest folder and kept its parent, which holds a
\* file that is not a note.
C17_Witness ==
    /\ StepCompleted
    /\ lastDone.walk = <<[path |-> Path3(N, A, N), deleted |-> TRUE],
                         [path |-> Path2(N, A), deleted |-> FALSE]>>
    /\ IsFilePath(vault, Path3(N, A, tTxt))

\* C15: a per-file step uses the rule as it was when its processVault invocation
\* took the list of rules: the destination is computed from that rule, the prune
\* walk runs only if that rule asks for it and on the folders below that rule's
\* source folder, and a file is passed over only if it is not due by that rule.
C15_RuleSnapshot ==
    /\ [](StepEnded =>
             /\ lastDone.dest = newFilePathOf([path |-> lastDone.src], lastDone.atStart)
             /\ Len(lastDone.walk) > 0 => lastDone.atStart.deleteEmptyFolders
             /\ \A k \in DOMAIN lastDone.walk :
                   lastDone.walk[k].path \in ChainFolders(lastDone.src, lastDone.atStart.sourceFolder))
    /\ [][(/\ pc = "files" /\ pc' = "files"
            /\ frame.fileIdx <= Len(frame.sourceFiles)
            /\ frame'.fileIdx = frame.fileIdx + 1
            /\ ops' = ops)
               => ~shouldFileBeArchived(sourceFile, frame.rules[archiveConfigId], now)]_vars

\* A file's name ends in .md
IsNote(p) == EndsWith(BaseName(p), MD)

\* C18: no copy writes and no delete removes the content of a file whose name
\* does not end in .md.
C18_OnlyNotesTouched ==
    \A k \in DOMAIN ops :
        ops[k].kind \in {"copy", "delete"} => \A c \in ops[k].contents : IsNote(c)

\* C19: what step 2 finds at the computed destination path is not a file of
\* the list collected for the rule that is being archived or still awaits its
\* step.
C19_PreclearSparesSources ==
    pc = "preclear" =>
        \A i \in frame.fileIdx..Len(frame.sourceFiles) :
            ~(frame.sourceFiles[i].path = frame.newFilePath /\ IsFilePath(vault, frame.newFilePath))

====
